---- MODULE Spec2Model ----
(***************************************************************************)
(* FixedString<N>: a fixed-capacity string (src/src/lib.rs).               *)
(*                                                                         *)
(* A container is a record [buffer, length]: buffer is the array           *)
(* [CHARACTER; N], a function on 0..N-1 of bytes, and length is the usize  *)
(* counter.  A text (&str) is the sequence of its bytes (as_bytes()), so   *)
(* Len(string) is string.len().  Every method is an operator computed as   *)
(* its code computes it; the methods that can fail return a record         *)
(* [res, fs] holding the Result and the container afterwards.              *)
(*                                                                         *)
(* The state machine is a caller owning a container `a` of capacity N and  *)
(* a container `b` of capacity M: it calls one method, holds what the call *)
(* returned (op, arg, res, ret, and pre, the containers before the call),  *)
(* and lets go of it before the next call.  While an iterator over `a` is  *)
(* live (it, yielded) the only calls are next(), iter() and its drop.      *)
(***************************************************************************)
EXTENDS Integers, Sequences, FiniteSets, TLC

\* Capacity of the container `a` (the const generic N).
N == 3
\* Capacity of the other container `b` handed to concatinate.
M == 2

\* const CHARACTER_NONE: CHARACTER = 0
CHARACTER_NONE == 0

\* The bytes a text is made of here ('A', 'B').
TextBytes == {65, 66}
\* The values a storage unit takes here.
Bytes == {CHARACTER_NONE} \cup TextBytes
\* The characters given to push_char / write_char: NUL, 'A', and U+0142,
\* whose code point 322 does not fit a CHARACTER.
Chars == {0, 65, 322}

\* The texts of length at most n tried here: for each length, the two texts
\* of alternating bytes ("ABA..", "BAB.."), so neighbouring bytes differ.
TextsUpTo(n) ==
    {[i \in 1..k |-> IF i % 2 = 1 THEN first ELSE CHOOSE x \in TextBytes : x # first] :
        first \in TextBytes, k \in 0..n}
\* The texts given to assign / push / write_str: up to one byte more than N.
Texts == TextsUpTo(N + 1)
\* The texts given to new_with for `b`: up to one byte more than M.
OtherTexts == TextsUpTo(M + 1)
\* The rendered fragments of a formatting pass.
Fragments == TextsUpTo(N - 1)
\* The raw arrays given to from_raw.
RawArrays == [0..(N - 1) -> Bytes]

\* What stands for "no container" (an Err result, or a call returning none).
NoContainer == [buffer |-> <<>>, length |-> 0 - 1]

min(x, y) == IF x < y THEN x ELSE y

-----------------------------------------------------------------------------
(* FixedString<N> and its FixedStringRef implementation                    *)

\* `character as CHARACTER`: a char cast to u8 keeps the low 8 bits.
as_CHARACTER(character) == character % 256

new(n) == [buffer |-> [i \in 0..(n - 1) |-> CHARACTER_NONE], length |-> 0]

capacity(fs) == Cardinality(DOMAIN fs.buffer)

length(fs) == fs.length

is_full(fs) == fs.length = capacity(fs)

raw(fs) == fs.buffer

\* &self.buffer[..self.length] read as a text
as_str(fs) == [i \in 1..fs.length |-> fs.buffer[i - 1]]

\* The inherent FixedString::clear: the one `x.clear()` resolves to on a
\* FixedString value, and inside clone_from.
clear(fs) == [fs EXCEPT !.length = 0]

\* for i in 0..CAPACITY { self.buffer[i] = CHARACTER_NONE; }
RECURSIVE ZeroLoop(_, _, _)
ZeroLoop(buffer, i, n) ==
    IF i >= n THEN buffer
    ELSE ZeroLoop([buffer EXCEPT ![i] = CHARACTER_NONE], i + 1, n)

\* <FixedString as FixedStringRef>::clear, reached through the interface.
FixedStringRef_clear(fs) ==
    [buffer |-> ZeroLoop(fs.buffer, 0, capacity(fs)), length |-> 0]

\* for i in 0..n { self.buffer[self.length + i] = bytes_to_copy[i] }
RECURSIVE CopyLoop(_, _, _, _, _)
CopyLoop(buffer, len, bytes, i, n) ==
    IF i >= n THEN buffer
    ELSE CopyLoop([buffer EXCEPT ![len + i] = bytes[i + 1]], len, bytes, i + 1, n)

pushOffByOne(fs, string) ==
    IF fs.length + Len(string) > capacity(fs) + 1
    THEN [res |-> "Overflow", fs |-> fs]
    ELSE LET copy_len == Len(string)
         IN [res |-> "Ok",
             fs |-> [buffer |-> [k \in DOMAIN fs.buffer |->
                                   IF k >= fs.length /\ k < fs.length + copy_len
                                   THEN string[k - fs.length + 1]
                                   ELSE fs.buffer[k]],
                     length |-> fs.length + copy_len]]

pushTruncating(fs, string) ==
    LET copy_len == min(Len(string), capacity(fs) - fs.length)
        written == [buffer |-> CopyLoop(fs.buffer, fs.length, string, 0, copy_len),
                    length |-> fs.length + copy_len]
    IN IF fs.length + Len(string) > capacity(fs)
       THEN [res |-> "Overflow", fs |-> written]
       ELSE [res |-> "Ok", fs |-> written]

pushReversed(fs, string) ==
    IF fs.length + Len(string) > capacity(fs)
    THEN [res |-> "Overflow", fs |-> fs]
    ELSE [res |-> "Ok",
          fs |-> [buffer |-> [k \in DOMAIN fs.buffer |->
                                IF k >= fs.length /\ k < fs.length + Len(string)
                                THEN string[Len(string) - (k - fs.length)]
                                ELSE fs.buffer[k]],
                  length |-> fs.length + Len(string)]]

push(fs, string) ==
    IF fs.length + Len(string) > capacity(fs)
    THEN [res |-> "Overflow", fs |-> fs]
    ELSE LET copy_len == min(Len(string), capacity(fs) - fs.length)
             n == min(capacity(fs) - fs.length, copy_len)
         IN [res |-> "Ok",
             fs |-> [buffer |-> CopyLoop(fs.buffer, fs.length, string, 0, n),
                     length |-> fs.length + copy_len]]

assignUnchecked(fs, string) == push(fs, string)

assignOverflowFirst(fs, string) ==
    IF fs.length + Len(string) > capacity(fs)
    THEN [res |-> "Overflow", fs |-> fs]
    ELSE IF fs.length # 0
    THEN [res |-> "AlreadyAssigned", fs |-> fs]
    ELSE push(fs, string)

assign(fs, string) ==
    IF fs.length # 0
    THEN [res |-> "AlreadyAssigned", fs |-> fs]
    ELSE push(fs, string)

\* The bytes of the &str holding one char: its UTF-8 encoding.
encode_utf8(character) ==
    IF character < 128 THEN <<character>>
    ELSE IF character < 2048
    THEN <<192 + (character \div 64), 128 + (character % 64)>>
    ELSE IF character < 65536
    THEN <<224 + (character \div 4096), 128 + ((character \div 64) % 64),
           128 + (character % 64)>>
    ELSE <<240 + (character \div 262144), 128 + ((character \div 4096) % 64),
           128 + ((character \div 64) % 64), 128 + (character % 64)>>

push_charAsText(fs, character) == push(fs, encode_utf8(character))

push_char(fs, character) ==
    IF fs.length + 1 > capacity(fs)
    THEN [res |-> "Overflow", fs |-> fs]
    ELSE [res |-> "Ok",
          fs |-> [buffer |-> [fs.buffer EXCEPT ![fs.length] = as_CHARACTER(character)],
                  length |-> fs.length + 1]]

getOffByOne(fs, index) ==
    IF index + 1 >= capacity(fs)
    THEN [res |-> "InvalidIndex", value |-> CHARACTER_NONE]
    ELSE [res |-> "Ok", value |-> fs.buffer[index]]

get(fs, index) ==
    IF index >= capacity(fs)
    THEN [res |-> "InvalidIndex", value |-> CHARACTER_NONE]
    ELSE [res |-> "Ok", value |-> fs.buffer[index]]

\* get_mut(index) followed by a write of `value` through the reference.
get_mut(fs, index, value) ==
    IF index >= capacity(fs)
    THEN [res |-> "InvalidIndex", fs |-> fs]
    ELSE [res |-> "Ok", fs |-> [fs EXCEPT !.buffer[index] = value]]

indexByCapacity(fs, index) ==
    IF index >= capacity(fs)
    THEN [res |-> "panic", value |-> CHARACTER_NONE]
    ELSE [res |-> "Ok", value |-> fs.buffer[index]]

\* Index<usize>::index, the read `fs[index]`; "panic" is the panic!() fault.
index(fs, position) ==
    IF position >= fs.length
    THEN [res |-> "panic", value |-> CHARACTER_NONE]
    ELSE [res |-> "Ok", value |-> fs.buffer[position]]

\* IndexMut<usize>::index_mut followed by a write, `fs[index] = value`.
index_mut(fs, position, value) ==
    IF position >= fs.length
    THEN [res |-> "panic", fs |-> fs]
    ELSE [res |-> "Ok", fs |-> [fs EXCEPT !.buffer[position] = value]]

\* for index in 0..other.length() { self.buffer[self.length + index] = *other.get(index)?; }
RECURSIVE ConcatLoop(_, _, _)
ConcatLoop(fs, other, i) ==
    IF i >= length(other)
    THEN [res |-> "Ok", fs |-> [fs EXCEPT !.length = @ + length(other)]]
    ELSE LET unit == get(other, i)
         IN IF unit.res # "Ok"
            THEN [res |-> unit.res, fs |-> fs]
            ELSE ConcatLoop([fs EXCEPT !.buffer[fs.length + i] = unit.value],
                            other, i + 1)

concatinateAtStart(fs, other) ==
    IF fs.length + length(other) > capacity(fs)
    THEN [res |-> "Overflow", fs |-> fs]
    ELSE ConcatLoop([fs EXCEPT !.length = 0], other, 0)

concatinateReversed(fs, other) ==
    IF fs.length + length(other) > capacity(fs)
    THEN [res |-> "Overflow", fs |-> fs]
    ELSE ConcatLoop(fs,
                    [other EXCEPT !.buffer =
                        [k \in DOMAIN other.buffer |->
                            IF k < other.length THEN other.buffer[other.length - 1 - k]
                            ELSE other.buffer[k]]],
                    0)

concatinate(fs, other) ==
    IF fs.length + length(other) > capacity(fs)
    THEN [res |-> "Overflow", fs |-> fs]
    ELSE ConcatLoop(fs, other, 0)

new_with(n, string) ==
    LET r == assign(new(n), string)
    IN IF r.res = "Ok" THEN [res |-> "Ok", fs |-> r.fs]
       ELSE [res |-> r.res, fs |-> NoContainer]

write_strTruncating(fs, string) ==
    LET copy_len == min(Len(string), capacity(fs) - fs.length)
    IN [res |-> "Ok",
        fs |-> [buffer |-> CopyLoop(fs.buffer, fs.length, string, 0, copy_len),
                length |-> fs.length + copy_len]]

\* fmt::Write::write_str; "fmt::Error" is the Err(fmt::Error) result.
write_str(fs, string) ==
    IF fs.length + Len(string) > capacity(fs)
    THEN [res |-> "fmt::Error", fs |-> fs]
    ELSE LET copy_len == min(Len(string), capacity(fs) - fs.length)
             n == min(capacity(fs) - fs.length, copy_len)
         IN [res |-> "Ok",
             fs |-> [buffer |-> CopyLoop(fs.buffer, fs.length, string, 0, n),
                     length |-> fs.length + copy_len]]

\* fmt::Write::write_char
write_char(fs, character) ==
    IF fs.length + 1 > capacity(fs)
    THEN [res |-> "fmt::Error", fs |-> fs]
    ELSE LET bytes_to_copy == <<as_CHARACTER(character)>>
         IN [res |-> "Ok",
             fs |-> [buffer |-> [fs.buffer EXCEPT ![fs.length] = bytes_to_copy[1]],
                     length |-> fs.length + 1]]

\* fmt::write(&mut fixed_string, args): the fragments of args are written in
\* order with write_str, and the pass stops at the first Err.
RECURSIVE fmt_write(_, _, _)
fmt_write(fs, args, k) ==
    IF k > Len(args) THEN [res |-> "Ok", fs |-> fs]
    ELSE LET w == write_str(fs, args[k])
         IN IF w.res # "Ok" THEN w ELSE fmt_write(w.fs, args, k + 1)

format(n, args) ==
    LET w == fmt_write(new(n), args, 1)
    IN IF w.res = "Ok" THEN [res |-> "Ok", fs |-> w.fs]
       ELSE [res |-> "FormatError", fs |-> NoContainer]

\* for i in 0..N { if raw[i] == CHARACTER_NONE { length = i; break; } buffer[i] = raw[i]; }
RECURSIVE FromRawLoop(_, _, _)
FromRawLoop(fs, rawArray, i) ==
    IF i >= capacity(fs) THEN fs
    ELSE IF rawArray[i] = CHARACTER_NONE THEN [fs EXCEPT !.length = i]
    ELSE FromRawLoop([fs EXCEPT !.buffer[i] = rawArray[i]], rawArray, i + 1)

RECURSIVE FromRawLoopNoBreak(_, _, _)
FromRawLoopNoBreak(fs, rawArray, i) ==
    IF i >= capacity(fs) THEN fs
    ELSE FromRawLoopNoBreak([fs EXCEPT !.buffer[i] = rawArray[i]], rawArray, i + 1)

from_rawNoBreak(rawArray) ==
    LET n == Cardinality(DOMAIN rawArray)
    IN [res |-> "Ok", fs |-> FromRawLoopNoBreak([new(n) EXCEPT !.length = n], rawArray, 0)]

from_raw(rawArray) ==
    LET n == Cardinality(DOMAIN rawArray)
    IN [res |-> "Ok", fs |-> FromRawLoop([new(n) EXCEPT !.length = n], rawArray, 0)]

\* for i in 0..self.length { res.buffer[i] = self.buffer[i]; self.buffer[i] = CHARACTER_NONE; }
RECURSIVE TakeLoop(_, _, _)
TakeLoop(self, res, i) ==
    IF i >= self.length THEN [self |-> self, res |-> res]
    ELSE TakeLoop([self EXCEPT !.buffer[i] = CHARACTER_NONE],
                  [res EXCEPT !.buffer[i] = self.buffer[i]], i + 1)

\* take(&mut self) -> Self: [self, res] are the original afterwards and the
\* container returned.
take(fs) ==
    LET moved == TakeLoop(fs, new(capacity(fs)), 0)
    IN [self |-> [moved.self EXCEPT !.length = 0],
        res |-> [moved.res EXCEPT !.length = fs.length]]

\* for i in 0..source.length { self.buffer[i] = source.buffer[i]; }
RECURSIVE CloneLoop(_, _, _)
CloneLoop(buffer, source, i) ==
    IF i >= source.length THEN buffer
    ELSE CloneLoop([buffer EXCEPT ![i] = source.buffer[i]], source, i + 1)

clone_from(fs, source) ==
    LET cleared == clear(fs)
    IN [buffer |-> CloneLoop(cleared.buffer, source, 0), length |-> source.length]

clone(fs) == clone_from(new(capacity(fs)), fs)

\* for i in 0..self.length { if self.buffer[i] != other.buffer[i] { return false; } }
RECURSIVE EqLoop(_, _, _, _)
EqLoop(self, other, i, n) ==
    IF i >= n THEN TRUE
    ELSE IF self.buffer[i] # other.buffer[i] THEN FALSE
    ELSE EqLoop(self, other, i + 1, n)

eqWholeBuffer(self, other) ==
    IF self.length # other.length THEN FALSE
    ELSE EqLoop(self, other, 0, capacity(self))

\* PartialEq::eq, `self == other`
eq(self, other) ==
    IF self.length # other.length THEN FALSE
    ELSE EqLoop(self, other, 0, self.length)

\* `unit as char`: a u8 is the char of the same code point.
as_char(unit) == unit

\* FixedString::iter: a FixedStringIterator borrowing the container; its
\* `content` is the container it is used with below.
iter(fs) == [position |-> 0]

nextOffByOne(iterator, content) ==
    IF iterator.position > content.length \/ iterator.position >= capacity(content)
    THEN [res |-> "None", item |-> as_char(CHARACTER_NONE), it |-> iterator]
    ELSE [res |-> "Some",
          item |-> as_char(content.buffer[iterator.position]),
          it |-> [iterator EXCEPT !.position = @ + 1]]

\* Iterator::next for FixedStringIterator
next(iterator, content) ==
    IF iterator.position >= content.length
    THEN [res |-> "None", item |-> as_char(CHARACTER_NONE), it |-> iterator]
    ELSE [res |-> "Some",
          item |-> as_char(content.buffer[iterator.position]),
          it |-> [iterator EXCEPT !.position = @ + 1]]

-----------------------------------------------------------------------------
(* The caller                                                              *)

\* a, b: the containers; it: the live iterator over `a`, if any, and
\* yielded: the items it has returned so far; pc, op, arg, res, ret, pre: the
\* caller's last call and what it returned.
VARIABLES a, b, it, yielded, pc, op, arg, res, ret, pre

vars == <<a, b, it, yielded, pc, op, arg, res, ret, pre>>

NoIterator == [position |-> 0 - 1]

NoCall == [a |-> NoContainer, b |-> NoContainer]
NoArg == [none |-> TRUE]

\* The second container of capacity N (the source of clone_from, the other
\* side of ==): every content a new_with builds.
Sources == {r.fs : r \in {x \in {new_with(N, t) : t \in Texts} : x.res = "Ok"}}

\* The third container of a grouped concatenation, of capacity M.
OtherSources == {r.fs : r \in {x \in {new_with(M, t) : t \in OtherTexts} : x.res = "Ok"}}

Init ==
    /\ a = new(N)
    /\ b = new(M)
    /\ it = NoIterator
    /\ yielded = <<>>
    /\ pc = "ready"
    /\ op = "none"
    /\ arg = NoArg
    /\ res = "none"
    /\ ret = NoContainer
    /\ pre = NoCall

\* One call: `name(argument)` returned `result` (and the value
\* `returned`, if any), leaving the containers as a2 and b2.
Observe(name, argument, result, returned, a2, b2) ==
    /\ pc = "ready"
    /\ pc' = "returned"
    /\ op' = name
    /\ arg' = argument
    /\ res' = result
    /\ ret' = returned
    /\ pre' = [a |-> a, b |-> b]
    /\ a' = a2
    /\ b' = b2

\* A call on the containers: none is made while an iterator borrows `a`.
Call(name, argument, result, returned, a2, b2) ==
    /\ it = NoIterator
    /\ Observe(name, argument, result, returned, a2, b2)
    /\ UNCHANGED <<it, yielded>>

\* let a = FixedString::<N>::new();
New == Call("new", NoArg, "Ok", new(N), new(N), b)

\* let b = FixedString::<M>::new_with(string)?;
NewWith(string) ==
    LET r == new_with(M, string)
    IN Call("new_with", [string |-> string], r.res, r.fs,
            a, IF r.res = "Ok" THEN r.fs ELSE b)

\* let a = FixedString::<N>::format(format_args!(..))?;
Format(args) ==
    LET r == format(N, args)
    IN Call("format", [args |-> args], r.res, r.fs,
            IF r.res = "Ok" THEN r.fs ELSE a, b)

\* let a = FixedString::from_raw(&raw)?;
FromRaw(rawArray) ==
    LET r == from_raw(rawArray)
    IN Call("from_raw", [raw |-> rawArray], r.res, r.fs, r.fs, b)

Assign(string) ==
    LET r == assign(a, string)
    IN Call("assign", [string |-> string], r.res, NoContainer, r.fs, b)

Push(string) ==
    LET r == push(a, string)
    IN Call("push", [string |-> string], r.res, NoContainer, r.fs, b)

PushChar(character) ==
    LET r == push_char(a, character)
    IN Call("push_char", [character |-> character], r.res, NoContainer, r.fs, b)

\* a.concatinate(&b)
Concatinate ==
    LET r == concatinate(a, b)
    IN Call("concatinate", [other |-> b], r.res, NoContainer, r.fs, b)

WriteStr(string) ==
    LET r == write_str(a, string)
    IN Call("write_str", [string |-> string], r.res, NoContainer, r.fs, b)

WriteChar(character) ==
    LET r == write_char(a, character)
    IN Call("write_char", [character |-> character], r.res, NoContainer, r.fs, b)

\* a.clear()
Clear == Call("clear", NoArg, "Ok", NoContainer, clear(a), b)

\* a.get_ref_mut().clear()
RefClear == Call("FixedStringRef::clear", NoArg, "Ok", NoContainer, FixedStringRef_clear(a), b)

\* let ret = a.take();
Take ==
    LET r == take(a)
    IN Call("take", NoArg, "Ok", r.res, r.self, b)

\* a.clone_from(&source)
CloneFrom(source) ==
    Call("clone_from", [source |-> source], "Ok", NoContainer, clone_from(a, source), b)

\* let ret = a.clone();
Clone == Call("clone", NoArg, "Ok", clone(a), a, b)

\* *a.get_mut(index)? = value;
GetMut(position, value) ==
    LET r == get_mut(a, position, value)
    IN Call("get_mut", [index |-> position, value |-> value], r.res, NoContainer, r.fs, b)

\* let unit = *a.get(index)?;
Get(position) ==
    LET r == get(a, position)
    IN Call("get", [index |-> position], r.res,
            IF r.res = "Ok" THEN [unit |-> r.value] ELSE NoContainer, a, b)

\* let unit = a[index];
Index(position) ==
    LET r == index(a, position)
    IN Call("index", [index |-> position], r.res,
            IF r.res = "Ok" THEN [unit |-> r.value] ELSE NoContainer, a, b)

\* a[index] = value;
IndexMut(position, value) ==
    LET r == index_mut(a, position, value)
    IN Call("index_mut", [index |-> position, value |-> value], r.res, NoContainer, r.fs, b)

\* a == other
Eq(other) ==
    Call("eq", [other |-> other], IF eq(a, other) THEN "true" ELSE "false",
         NoContainer, a, b)

\* let mut it = a.iter();  (also while an earlier iterator is live: it is replaced)
Iter ==
    /\ Observe("iter", NoArg, "Ok", NoContainer, a, b)
    /\ it' = iter(a)
    /\ yielded' = <<>>

\* let item = it.next();
IterNext ==
    /\ it # NoIterator
    /\ LET r == next(it, a)
       IN /\ Observe("next", [position |-> it.position], r.res,
                     IF r.res = "Some" THEN [unit |-> r.item] ELSE NoContainer, a, b)
          /\ it' = r.it
          /\ yielded' = IF r.res = "Some" THEN Append(yielded, r.item) ELSE yielded

\* drop(it): the iterator goes out of scope and the borrow of `a` ends.
DropIter ==
    /\ it # NoIterator
    /\ Observe("drop", NoArg, "Ok", NoContainer, a, b)
    /\ it' = NoIterator
    /\ yielded' = <<>>

\* Both groupings of a.b.c, each on copies:
\*   let mut left = a.clone(); left.concatinate(&b)?; left.concatinate(&c)?;
\*   let mut bc = b.clone(); bc.concatinate(&c)?;
\*   let mut right = a.clone(); right.concatinate(&bc)?;
ConcatinateBothWays(c) ==
    LET ab == concatinate(clone(a), b)
        left == IF ab.res = "Ok" THEN concatinate(ab.fs, c) ELSE ab
        bc == concatinate(clone(b), c)
        right == IF bc.res = "Ok" THEN concatinate(clone(a), bc.fs) ELSE bc
    IN Call("concatinate both ways", [c |-> c],
            IF left.res # "Ok" THEN left.res ELSE right.res,
            [left |-> left.fs, right |-> right.fs], a, b)

\* The caller is done with what the call returned.
Return ==
    /\ pc = "returned"
    /\ pc' = "ready"
    /\ op' = "none"
    /\ arg' = NoArg
    /\ res' = "none"
    /\ ret' = NoContainer
    /\ pre' = NoCall
    /\ UNCHANGED <<a, b, it, yielded>>

Next ==
    \/ New
    \/ \E string \in OtherTexts : NewWith(string)
    \/ \E lit \in Fragments, val \in Fragments : Format(<<lit, val>>)
    \/ \E rawArray \in RawArrays : FromRaw(rawArray)
    \/ \E string \in Texts : Assign(string)
    \/ \E string \in Texts : Push(string)
    \/ \E character \in Chars : PushChar(character)
    \/ Concatinate
    \/ \E string \in Texts : WriteStr(string)
    \/ \E character \in Chars : WriteChar(character)
    \/ Clear
    \/ RefClear
    \/ Take
    \/ \E source \in Sources : CloneFrom(source)
    \/ Clone
    \/ \E position \in 0..N, value \in Bytes : GetMut(position, value)
    \/ \E position \in 0..N : Get(position)
    \/ \E position \in 0..N : Index(position)
    \/ \E position \in 0..N, value \in Bytes : IndexMut(position, value)
    \/ \E other \in Sources : Eq(other)
    \/ \E c \in OtherSources : ConcatinateBothWays(c)
    \/ Iter
    \/ IterNext
    \/ DropIter
    \/ Return

Spec == Init /\ [][Next]_vars

-----------------------------------------------------------------------------
(* Properties                                                              *)

Returned(name) == pc = "returned" /\ op = name

\* Every storage unit of the container is zero.
AllZero(fs) == \A i \in DOMAIN raw(fs) : raw(fs)[i] = CHARACTER_NONE

\* The units in [0, length) of x and y are the same.
SameContent(x, y) ==
    /\ length(x) = length(y)
    /\ \A i \in 0..(length(x) - 1) : raw(x)[i] = raw(y)[i]

\* The fragments of a formatting pass, one after the other.
RECURSIVE Rendered(_, _)
Rendered(args, k) == IF k = 0 THEN <<>> ELSE Rendered(args, k - 1) \o args[k]

\* The index of the first zero unit of a raw array, its size if there is none.
FirstZero(rawArray) ==
    IF \E i \in DOMAIN rawArray : rawArray[i] = CHARACTER_NONE
    THEN CHOOSE i \in DOMAIN rawArray :
            /\ rawArray[i] = CHARACTER_NONE
            /\ \A j \in 0..(i - 1) : rawArray[j] # CHARACTER_NONE
    ELSE Cardinality(DOMAIN rawArray)

\* C1: in every reachable state the length counter of the container is
\* between 0 and its capacity N.
C1_LengthWithinCapacity ==
    /\ capacity(a) = N
    /\ 0 <= length(a)
    /\ length(a) <= N

\* C1 witness: a full container has just refused one more unit.
C1_Witness ==
    /\ Returned("push_char")
    /\ res = "Overflow"
    /\ length(a) = N

C4_ClearZeroesStorage ==
    (pc = "returned" /\ op \in {"clear", "FixedStringRef::clear"}) =>
        /\ length(a) = 0
        /\ AllZero(a)
        /\ clear(pre.a) = FixedStringRef_clear(pre.a)

\* C5: after dest.clone_from(src), and for clone(), the destination has the
\* source's length and content and every unit from length on is zero.
C5_CloneLeavesNoStaleData ==
    /\ Returned("clone_from") =>
          /\ SameContent(a, arg.source)
          /\ \A i \in length(a)..(N - 1) : raw(a)[i] = CHARACTER_NONE
    /\ Returned("clone") =>
          /\ SameContent(ret, pre.a)
          /\ \A i \in length(ret)..(N - 1) : raw(ret)[i] = CHARACTER_NONE

\* C6: take() returns the content the original had and leaves the original
\* with length 0 and every storage unit zero.
C6_TakeZeroesOriginal ==
    Returned("take") =>
        /\ SameContent(ret, pre.a)
        /\ length(a) = 0
        /\ AllZero(a)

C8_Concatinate ==
    Returned("concatinate") =>
        /\ res = "Ok" <=> length(pre.a) + length(pre.b) <= N
        /\ res = "Ok" =>
              /\ as_str(a) = as_str(pre.a) \o as_str(pre.b)
              /\ length(a) = length(pre.a) + length(pre.b)
        /\ b = pre.b

\* C8 witness: a container of several units was appended to a non-empty one.
C8_Witness ==
    /\ Returned("concatinate")
    /\ res = "Ok"
    /\ length(pre.a) > 0
    /\ length(pre.b) > 1

C10_FromRaw ==
    Returned("from_raw") =>
        /\ res = "Ok"
        /\ length(ret) = FirstZero(arg.raw)
        /\ \A i \in 0..(FirstZero(arg.raw) - 1) : raw(ret)[i] = arg.raw[i]

\* C10 witness: the raw array held content, a zero, and content after it.
C10_Witness ==
    /\ Returned("from_raw")
    /\ length(ret) > 0
    /\ \E i \in (length(ret) + 1)..(N - 1) : arg.raw[i] # CHARACTER_NONE

\* C11: get(i) / get_mut(i) return Err(InvalidIndex) iff i >= N and otherwise
\* reach storage unit i, also for length <= i < N; the direct index a[i]
\* (read and write) faults iff i >= length and otherwise reaches unit i. For
\* length <= i < N get succeeds where the direct index faults.
C11_DualIndexing ==
    /\ Returned("get") =>
          /\ res = "InvalidIndex" <=> arg.index >= N
          /\ res # "InvalidIndex" => (res = "Ok" /\ ret.unit = raw(pre.a)[arg.index])
    /\ Returned("get_mut") =>
          /\ res = "InvalidIndex" <=> arg.index >= N
          /\ res # "InvalidIndex" =>
                (res = "Ok" /\ a = [pre.a EXCEPT !.buffer[arg.index] = arg.value])
          /\ res = "InvalidIndex" => a = pre.a
    /\ Returned("index") =>
          /\ res = "panic" <=> arg.index >= length(pre.a)
          /\ res # "panic" => (res = "Ok" /\ ret.unit = raw(pre.a)[arg.index])
          /\ (length(pre.a) <= arg.index /\ arg.index < N) =>
                (res = "panic" /\ get(pre.a, arg.index).res = "Ok")
    /\ Returned("index_mut") =>
          /\ res = "panic" <=> arg.index >= length(pre.a)
          /\ res # "panic" =>
                (res = "Ok" /\ a = [pre.a EXCEPT !.buffer[arg.index] = arg.value])

\* C11 witness: a direct read faulted at an index below the capacity, where
\* the storage holds a unit that get returns.
C11_Witness ==
    /\ Returned("index")
    /\ res = "panic"
    /\ arg.index < N
    /\ length(pre.a) > 0
    /\ raw(pre.a)[arg.index] # CHARACTER_NONE

\* C12: two containers of the same capacity are equal iff their lengths are
\* equal and their units in [0, length) are equal; units at indices >= length
\* never influence the result.
C12_Equality ==
    Returned("eq") =>
        /\ res = "true" <=> SameContent(pre.a, arg.other)
        /\ res \in {"true", "false"}

\* C12 witness: two containers compared equal although their storage differs
\* past the length.
C12_Witness ==
    /\ Returned("eq")
    /\ res = "true"
    /\ length(pre.a) > 0
    /\ raw(pre.a) # raw(arg.other)

\* C13: an iterator from iter() yields exactly the units at indices 0, 1, ..,
\* length-1 in that order and then None on every further call; it never
\* yields a unit at an index >= length; each iter() starts again at index 0.
C13_Iterator ==
    /\ it # NoIterator =>
          /\ it.position <= length(a)
          /\ yielded = [i \in 1..it.position |-> as_char(raw(a)[i - 1])]
    /\ Returned("iter") => (it.position = 0 /\ yielded = <<>>)
    /\ Returned("next") =>
          /\ res = "None" <=> arg.position >= length(a)
          /\ res = "None" =>
                /\ it.position = arg.position
                /\ yielded = as_str(a)
                /\ Len(yielded) = length(a)
          /\ res # "None" =>
                /\ res = "Some"
                /\ ret.unit = raw(a)[arg.position]
                /\ it.position = arg.position + 1

\* C13 witness: the iterator ended after several items although the storage
\* holds a non-zero unit right after the content.
C13_Witness ==
    /\ Returned("next")
    /\ res = "None"
    /\ Len(yielded) > 1
    /\ length(a) < N
    /\ raw(a)[length(a)] # CHARACTER_NONE

\* C14: concatenation is associative in content: b then c concatenated onto
\* a copy of a gives the same as_str() as (b with c appended) concatenated
\* onto a copy of a, whenever every intermediate concatinate fits its target.
C14_ConcatinateAssociative ==
    (Returned("concatinate both ways") /\ res = "Ok") =>
        /\ as_str(ret.left) = as_str(ret.right)
        /\ as_str(ret.left) = (as_str(pre.a) \o as_str(pre.b)) \o as_str(arg.c)

\* C14 witness: three non-empty contents were concatenated in both groupings,
\* the second and third differing.
C14_Witness ==
    /\ Returned("concatinate both ways")
    /\ res = "Ok"
    /\ length(pre.a) > 0
    /\ length(pre.b) > 0
    /\ length(arg.c) > 0
    /\ as_str(pre.b) # as_str(arg.c)

\* C15: assign returns Err(AlreadyAssigned) exactly when the length is
\* non-zero at the call, also when the text exceeds N, and then leaves the
\* state unchanged; after clear(), take() or an assign of the empty text, an
\* assign of any text that fits succeeds.
C15_AlreadyAssigned ==
    /\ Returned("assign") =>
          /\ res = "AlreadyAssigned" <=> length(pre.a) # 0
          /\ res = "AlreadyAssigned" => a = pre.a
    /\ (/\ pc = "returned"
        /\ \/ op \in {"clear", "FixedStringRef::clear", "take"}
           \/ (op = "assign" /\ res = "Ok" /\ Len(arg.string) = 0))
       => \A t \in Texts : Len(t) <= N => assign(a, t).res = "Ok"

\* C15 witness: an assign of a text longer than N on a non-empty container
\* was refused as AlreadyAssigned.
C15_Witness ==
    /\ Returned("assign")
    /\ res = "AlreadyAssigned"
    /\ Len(arg.string) > N

\* C16: with a FixedString as the other operand concatinate fails only with
\* Overflow: every other.get(index) for index < other.length() returns Ok,
\* so it never returns InvalidIndex and never stops after a part of the
\* other's content.
C16_ConcatinateOnlyOverflows ==
    Returned("concatinate") =>
        /\ res \in {"Ok", "Overflow"}
        /\ \A i \in 0..(length(pre.b) - 1) : get(pre.b, i).res = "Ok"
        /\ res = "Ok" => length(a) = length(pre.a) + length(pre.b)
        /\ res # "Ok" => a = pre.a

\* C16 witness: a full container was appended, so get reached its last unit.
C16_Witness ==
    /\ Returned("concatinate")
    /\ res = "Ok"
    /\ length(pre.b) = capacity(pre.b)

\* C17: push_char(c) and write_char(c), when length < N, increase the length
\* by exactly 1 and store (code point of c) mod 256 at the old length index;
\* for a code point >= 128 that differs from what push / write_str of the
\* same character as text appends.
C17_CharIsOneUnit ==
    (/\ pc = "returned"
     /\ op \in {"push_char", "write_char"}
     /\ length(pre.a) < N)
    => /\ res = "Ok"
       /\ length(a) = length(pre.a) + 1
       /\ raw(a) = [raw(pre.a) EXCEPT ![length(pre.a)] = arg.character % 256]
       /\ arg.character >= 128 =>
             LET text == encode_utf8(arg.character)
             IN /\ <<raw(a)[length(pre.a)]>> # text
                /\ as_str(a) # as_str(push(pre.a, text).fs)
                /\ as_str(a) # as_str(write_str(pre.a, text).fs)

\* C17 witness: a character above U+00FF was pushed onto existing content
\* where its text form would have fitted too.
C17_Witness ==
    /\ Returned("push_char")
    /\ res = "Ok"
    /\ arg.character >= 256
    /\ length(pre.a) > 0
    /\ push(pre.a, encode_utf8(arg.character)).res = "Ok"

====
